---------------------------- MODULE Spec2Model ----------------------------
(***************************************************************************)
(* Wafer inspection path planner: src/milestone1.py (basic mode only) and  *)
(* src/TestCases/final.py (basic mode, milestone = 1, and extended mode,   *)
(* milestone = 2).                                                         *)
(*                                                                         *)
(* Numbers.  Python floats are modelled as fixed-point numbers: the        *)
(* integer n stands for the value n / FP.  Every float operation whose     *)
(* result need not be representable (/, math.sqrt, round) rounds to the    *)
(* nearest representable value, as IEEE arithmetic does; +, -, abs and %   *)
(* are exact.  Coordinates, velocities, angles (degrees) and times         *)
(* (seconds) all use this representation.                                  *)
(***************************************************************************)
EXTENDS Integers, Sequences, FiniteSets, TLC

VARIABLES
    module,      \* which source file's WaferInspector: "milestone1" or "final"
    input_data,  \* the input record the inspector was constructed from
    insp,        \* the WaferInspector object (its dies carry the visited flags)
    call,        \* the last method called on the inspector, with its arguments
    entry,       \* the dies' visited flags when that call began
    ret,         \* what that call returned, or the exception it raised
    frames       \* the planner invocations in progress, one per caller

vars == <<module, input_data, insp, call, entry, ret, frames>>

----------------------------------------------------------------------------
(* Bounds of the model *)

\* longest die list
MaxDies == 3
\* representable values per 0.001: the resolution of the float model
SubMilli == 2

\* round(total_time, 3) keeps 3 decimals, i.e. multiples of 1/1000
Millis == 1000

\* fixed-point units per 1.0
FP == SubMilli * Millis

\* the value of the decimal literal u (whole units) and of u/1000
Num(u) == u * FP
Milli(m) == m * SubMilli

----------------------------------------------------------------------------
(* Float arithmetic *)

\* None (final.py line 138): no orientation is ever negative
None == 0 - 1

Abs(x) == IF x < 0 THEN 0 - x ELSE x

\* x / y on two integers, rounded to nearest (y > 0)
RoundDivPos(x, y) == (2 * x + y) \div (2 * y)

\* x / y rounded to nearest, y # 0
RoundDiv(x, y) == IF y > 0 THEN RoundDivPos(x, y) ELSE RoundDivPos(0 - x, 0 - y)

\* a / b: float true division; the caller has excluded b = 0
FDiv(a, b) == RoundDiv(a * FP, b)

\* the floor of sqrt(n), given s = 2 * floor(sqrt(n \div 4))
IsqrtStep(n, s) == IF (s + 1) * (s + 1) > n THEN s ELSE s + 1

RECURSIVE Isqrt(_)
\* floor of the square root of n >= 0
Isqrt(n) == IF n < 2 THEN n ELSE IsqrtStep(n, 2 * Isqrt(n \div 4))

\* r or r + 1, whichever is nearer to sqrt(n), given r = floor(sqrt(n))
SqrtRound(n, r) == IF n - r * r > r THEN r + 1 ELSE r

\* math.sqrt of the sum of two squares of fixed-point numbers: the argument is
\* n / FP^2, so the result is sqrt(n) / FP, rounded to nearest
SqrtNearest(n) == SqrtRound(n, Isqrt(n))

\* a % 360 (Python: the result has the sign of the divisor)
Mod360(a) == a % Num(360)

\* math.degrees(math.atan2(dy, dx)), in (-180, 180].  The die edges of the
\* model lie on the axes and the diagonals, where the angle is a multiple of
\* 45 degrees; atan2(0, 0) is 0.
Atan2Deg(dy, dx) ==
    CASE dy = 0 /\ dx >= 0        -> Num(0)
      [] dy = 0 /\ dx < 0         -> Num(180)
      [] dx = 0 /\ dy > 0         -> Num(90)
      [] dx = 0 /\ dy < 0         -> Num(0 - 90)
      [] dy = dx /\ dx > 0        -> Num(45)
      [] dy = dx /\ dx < 0        -> Num(0 - 135)
      [] dy = 0 - dx /\ dx > 0    -> Num(0 - 45)
      [] dy = 0 - dx /\ dx < 0    -> Num(135)

\* q * 0.001 or (q + 1) * 0.001, whichever is nearer to q * 0.001 + r / FP,
\* ties to the even one
RoundTo(q, r) ==
    IF 2 * r > SubMilli \/ (2 * r = SubMilli /\ q % 2 = 1)
    THEN (q + 1) * SubMilli ELSE q * SubMilli

\* round(t, 3)
Round3(t) == RoundTo(t \div SubMilli, t % SubMilli)

RECURSIVE MinOf(_)
\* min(s), s a non-empty sequence of numbers
MinOf(s) ==
    IF Len(s) = 1 THEN s[1]
    ELSE IF s[1] <= MinOf(Tail(s)) THEN s[1] ELSE MinOf(Tail(s))

RECURSIVE MaxOf(_)
\* max(s), s a non-empty sequence of numbers
MaxOf(s) ==
    IF Len(s) = 1 THEN s[1]
    ELSE IF s[1] >= MaxOf(Tail(s)) THEN s[1] ELSE MaxOf(Tail(s))

\* list(reversed(s))
Reversed(s) == [i \in 1..Len(s) |-> s[Len(s) + 1 - i]]

\* [p[0] for p in s] and [p[1] for p in s]
Xs(s) == [i \in 1..Len(s) |-> s[i][1]]
Ys(s) == [i \in 1..Len(s) |-> s[i][2]]

----------------------------------------------------------------------------
(* class Die *)

\* Die.calculate_center
calculate_center(corners) ==
    << FDiv(MinOf(Xs(corners)) + MaxOf(Xs(corners)), Num(2)),
       FDiv(MinOf(Ys(corners)) + MaxOf(Ys(corners)), Num(2)) >>

\* Die.calculate_orientation (final.py)
calculate_orientation(corners) ==
    IF Len(corners) < 2 THEN Num(0)
    ELSE Mod360(Atan2Deg(corners[2][2] - corners[1][2], corners[2][1] - corners[1][1]))

\* Die.__init__: milestone1.py has no orientation attribute, final.py sets it
\* only when milestone = 2
Die(corners, mod, milestone) ==
    [ corners     |-> corners,
      center      |-> calculate_center(corners),
      orientation |-> IF mod = "final" /\ milestone = 2
                      THEN calculate_orientation(corners) ELSE None,
      visited     |-> FALSE ]

----------------------------------------------------------------------------
(* class WaferInspector *)

\* WaferInspector.__init__.  milestone1.py stores the angle and the camera
\* fields and has no milestone (it is basic mode: milestone 1 here); final.py
\* stores them only when milestone = 2.
WaferInspector(data, mod, milestone) ==
    [ milestone           |-> milestone,
      initial_position    |-> data.InitialPosition,
      initial_angle       |-> IF mod = "milestone1" \/ milestone = 2
                              THEN data.InitialAngle ELSE None,
      stage_velocity      |-> data.StageVelocity,
      stage_acceleration  |-> data.StageAcceleration,
      camera_velocity     |-> IF mod = "milestone1" \/ milestone = 2
                              THEN data.CameraVelocity ELSE None,
      camera_acceleration |-> IF mod = "milestone1" \/ milestone = 2
                              THEN data.CameraAcceleration ELSE None,
      rotation_velocity   |-> IF mod = "final" /\ milestone = 2
                              THEN data.CameraVelocity ELSE None,
      wafer_diameter      |-> data.WaferDiameter,
      dies                |-> [i \in 1..Len(data.Dies) |->
                                  Die(data.Dies[i].Corners, mod, milestone)] ]

\* math.sqrt(dx**2 + dy**2)
Hypot(dx, dy) == SqrtNearest(dx * dx + dy * dy)

\* A faulty calculate_distance without the squares and the root, whose result
\* may be negative; C3 rules it out.
calculate_distance_Signed(point1, point2) ==
    (point2[1] - point1[1]) + (point2[2] - point1[2])

\* WaferInspector.calculate_distance
calculate_distance(point1, point2) ==
    Hypot(point2[1] - point1[1], point2[2] - point1[2])

\* lines 58-59 (and 70-71): an angle in [0, 360) folded to [0, 180]
Fold(angle_diff) ==
    IF angle_diff > Num(180) THEN Num(360) - angle_diff ELSE angle_diff

\* lines 56-59 (and 68-71): angle_diff
AngleDiff(angle, die_orientation) == Fold(Mod360(Abs(die_orientation - angle)))

\* A faulty calculate_rotation_time that charges the whole difference, without
\* the 90 degree tolerance; C8 rules it out.
RotationTimeFor_NoTolerance(self, angle_diff) ==
    IF angle_diff < Num(90) THEN Num(0)
    ELSE IF self.rotation_velocity > 0
         THEN FDiv(angle_diff, self.rotation_velocity)
         ELSE 0

\* lines 60-64: the rotation time for the folded difference angle_diff
RotationTimeFor(self, angle_diff) ==
    IF angle_diff < Num(90) THEN Num(0)
    ELSE IF self.rotation_velocity > 0
         THEN FDiv(angle_diff - Num(90), self.rotation_velocity)
         ELSE 0

\* WaferInspector.calculate_rotation_time (final.py)
calculate_rotation_time(self, camera_angle, die_orientation) ==
    IF self.milestone # 2 THEN Num(0)
    ELSE RotationTimeFor(self, AngleDiff(camera_angle, die_orientation))

\* A faulty get_new_camera_angle that turns the camera away from the die; C9
\* rules it out.
NewAngleFor_Reversed(current_angle, die_orientation, angle_diff) ==
    IF angle_diff < Num(90) THEN current_angle
    ELSE IF Mod360(die_orientation - current_angle) > Num(180)
         THEN Mod360(current_angle + (angle_diff - Num(90)))
         ELSE Mod360(current_angle - (angle_diff - Num(90)))

\* lines 72-79: the new angle for the folded difference angle_diff
NewAngleFor(current_angle, die_orientation, angle_diff) ==
    IF angle_diff < Num(90) THEN current_angle
    ELSE IF Mod360(die_orientation - current_angle) > Num(180)
         THEN Mod360(current_angle - (angle_diff - Num(90)))
         ELSE Mod360(current_angle + (angle_diff - Num(90)))

\* WaferInspector.get_new_camera_angle (final.py)
get_new_camera_angle(self, current_angle, die_orientation) ==
    IF self.milestone # 2 THEN current_angle
    ELSE NewAngleFor(current_angle, die_orientation,
                     AngleDiff(current_angle, die_orientation))

\* What a planner call produces: the returned (path, time), or the exception
\* that ended it, together with the dies as the call left them and the
\* planners it invoked.
Returned(path, time, dies, invoked) ==
    [ status |-> "ok", path |-> path, time |-> time,
      dies |-> dies, invoked |-> invoked ]

\* A faulty division that gives time 0 for a zero divisor instead of raising;
\* C7 rules it out.
Raised_AsZeroTime(dies, invoked) ==
    [ status |-> "ok", path |-> <<>>, time |-> 0,
      dies |-> dies, invoked |-> invoked ]

\* a float division by zero: ZeroDivisionError propagates to the caller
Raised(dies, invoked) ==
    [ status |-> "ZeroDivisionError", path |-> <<>>, time |-> 0,
      dies |-> dies, invoked |-> invoked ]

\* for die in self.dies: die.visited = False
ResetVisited(dies) == [i \in 1..Len(dies) |-> [dies[i] EXCEPT !.visited = FALSE]]

\* lines 99-104, 113-120, 153-159: the time charged for a die reached in
\* movement_time, with the camera at `angle` (total_die_time)
DieTime(self, movement_time, angle, orientation) ==
    IF self.milestone = 2 /\ orientation # None
    THEN movement_time + calculate_rotation_time(self, angle, orientation)
    ELSE movement_time

----------------------------------------------------------------------------
(* find_nearest_neighbor_path, final.py *)

\* lines 85-90: the locals before the while loop
NNLocals(self) ==
    [ path             |-> <<self.initial_position>>,
      total_time       |-> Num(0),
      current_position |-> self.initial_position,
      current_angle    |-> IF self.milestone = 2 THEN self.initial_angle ELSE None,
      remaining_dies   |-> Len(self.dies),
      status           |-> "loop" ]

\* A faulty cost that adds the stage acceleration to the time of every die;
\* C10 rules it out.
NNDieTime_WithAcceleration(self, loc, i) ==
    DieTime(self,
            FDiv(calculate_distance(loc.current_position, self.dies[i].center),
                 self.stage_velocity),
            loc.current_angle, self.dies[i].orientation)
    + self.stage_acceleration

\* lines 98-104 and 112-120: the time to visit die i from the current state
NNDieTime(self, loc, i) ==
    DieTime(self,
            FDiv(calculate_distance(loc.current_position, self.dies[i].center),
                 self.stage_velocity),
            loc.current_angle, self.dies[i].orientation)

\* A faulty comparison (<= for <) that keeps the last of several dies of equal
\* cost; C11 rules it out.
ScanStep_LastOnTie(best, i, total_die_time) ==
    IF best.idx = 0 - 1 \/ total_die_time <= best.min
    THEN [idx |-> i, min |-> total_die_time]
    ELSE best

\* lines 106-108: die i, reached in total_die_time, against the best so far;
\* best.idx = -1 stands for min_total_time = float('inf')
ScanStep(best, i, total_die_time) ==
    IF best.idx = 0 - 1 \/ total_die_time < best.min
    THEN [idx |-> i, min |-> total_die_time]
    ELSE best

RECURSIVE NNScan(_, _, _, _)
\* lines 93-108: the scan from die i on
NNScan(self, loc, i, best) ==
    IF i > Len(self.dies) THEN best
    ELSE IF self.dies[i].visited THEN NNScan(self, loc, i + 1, best)
    ELSE NNScan(self, loc, i + 1, ScanStep(best, i, NNDieTime(self, loc, i)))

\* A faulty move that does not mark the die visited; C2 rules it out.
NNVisit_NoMark(self, loc, nearest_idx) ==
    IF nearest_idx = 0 - 1
    THEN [self |-> self, loc |-> [loc EXCEPT !.status = "break"]]
    ELSE [ self |-> self,
           loc  |-> [loc EXCEPT
               !.current_angle =
                   IF self.milestone = 2
                   THEN get_new_camera_angle(self, @, self.dies[nearest_idx].orientation)
                   ELSE @,
               !.current_position = self.dies[nearest_idx].center,
               !.path = Append(@, self.dies[nearest_idx].center),
               !.total_time = @ + NNDieTime(self, loc, nearest_idx),
               !.remaining_dies = @ - 1] ]

\* lines 109-127: the move to the die found, or the break
NNVisit(self, loc, nearest_idx) ==
    IF nearest_idx = 0 - 1
    THEN [self |-> self, loc |-> [loc EXCEPT !.status = "break"]]
    ELSE [ self |-> [self EXCEPT !.dies[nearest_idx].visited = TRUE],
           loc  |-> [loc EXCEPT
               !.current_angle =
                   IF self.milestone = 2
                   THEN get_new_camera_angle(self, @, self.dies[nearest_idx].orientation)
                   ELSE @,
               !.current_position = self.dies[nearest_idx].center,
               !.path = Append(@, self.dies[nearest_idx].center),
               !.total_time = @ + NNDieTime(self, loc, nearest_idx),
               !.remaining_dies = @ - 1] ]

\* lines 92-127: one iteration of the while loop; gives the inspector and the
\* locals after it.  The first division of the scan raises when the stage
\* velocity is 0.
NNIter(self, loc) ==
    IF self.stage_velocity = 0 /\ \E i \in 1..Len(self.dies) : ~self.dies[i].visited
    THEN [self |-> self, loc |-> [loc EXCEPT !.status = "ZeroDivisionError"]]
    ELSE NNVisit(self, loc, NNScan(self, loc, 1, [idx |-> 0 - 1, min |-> 0]).idx)

RECURSIVE NNLoop(_)
\* lines 91-128: the while loop and the return, from the state st
NNLoop(st) ==
    IF st.loc.status = "ZeroDivisionError" THEN Raised(st.self.dies, {"nn"})
    ELSE IF st.loc.status = "loop" /\ st.loc.remaining_dies > 0
    THEN NNLoop(NNIter(st.self, st.loc))
    ELSE Returned(st.loc.path, st.loc.total_time, st.self.dies, {"nn"})

\* A faulty find_nearest_neighbor_path that does not reset the visited flags;
\* C6 rules it out.
find_nearest_neighbor_path_NoReset(self) ==
    IF self.dies = <<>>
    THEN Returned(<<self.initial_position>>, Num(0), self.dies, {"nn"})
    ELSE NNLoop([self |-> self, loc |-> NNLocals(self)])

\* WaferInspector.find_nearest_neighbor_path (final.py)
find_nearest_neighbor_path(self) ==
    IF self.dies = <<>>
    THEN Returned(<<self.initial_position>>, Num(0), self.dies, {"nn"})
    ELSE NNLoop([self |-> [self EXCEPT !.dies = ResetVisited(@)],
                 loc  |-> NNLocals(self)])

----------------------------------------------------------------------------
(* find_linear_traversal_path, final.py *)

\* tuple comparison k1 <= k2 of two sort keys
PairLeq(k1, k2) == k1[1] < k2[1] \/ (k1[1] = k2[1] /\ k1[2] <= k2[2])

\* the sort keys (x, y), byX, and (y, x) of two items compared; an item's
\* first component is its center
KeyLeq(a, b, byX) ==
    IF byX THEN PairLeq(a[1], b[1])
    ELSE PairLeq(<<a[1][2], a[1][1]>>, <<b[1][2], b[1][1]>>)

RECURSIVE InsertSorted(_, _, _)
\* item put behind every element of the sorted list s whose key is <= its own
InsertSorted(item, s, byX) ==
    IF s = <<>> THEN <<item>>
    ELSE IF KeyLeq(s[1], item, byX)
         THEN <<s[1]>> \o InsertSorted(item, Tail(s), byX)
         ELSE <<item>> \o s

RECURSIVE Sorted(_, _)
\* sorted(s, key=...): stable, items with equal keys keep their order
Sorted(s, byX) ==
    IF s = <<>> THEN <<>>
    ELSE InsertSorted(s[Len(s)], Sorted(SubSeq(s, 1, Len(s) - 1), byX), byX)

\* A faulty planner that leaves the dies in input order; C13 rules it out.
SortedAlongAxis_Unsorted(items, centers) == items

\* lines 139-146 (milestone1.py 90-100): the items sorted along the dominant
\* axis of their centers
SortedAlongAxis(items, centers) ==
    Sorted(items, MaxOf(Xs(centers)) - MinOf(Xs(centers))
                  >= MaxOf(Ys(centers)) - MinOf(Ys(centers)))

\* lines 133-146: die_info, sorted
SortedInfo(self) ==
    SortedAlongAxis([i \in 1..Len(self.dies) |->
                        <<self.dies[i].center, self.dies[i].orientation>>],
                    [i \in 1..Len(self.dies) |-> self.dies[i].center])

\* lines 152-160: one die of a walk
WalkStep(self, w, center, orientation) ==
    [ pos   |-> center,
      angle |-> IF self.milestone = 2 /\ orientation # None
                THEN get_new_camera_angle(self, w.angle, orientation)
                ELSE w.angle,
      time  |-> w.time + DieTime(self,
                                 FDiv(calculate_distance(w.pos, center),
                                      self.stage_velocity),
                                 w.angle, orientation) ]

RECURSIVE Walk(_, _, _)
\* lines 151-160 (and 165-174): the walk over the items left, from the
\* position, angle and time in w; the caller has excluded stage_velocity = 0
Walk(self, items, w) ==
    IF items = <<>> THEN w
    ELSE Walk(self, Tail(items), WalkStep(self, w, items[1][1], items[1][2]))

\* lines 147-150 and 161-164: where each walk starts
WalkStart(self) ==
    [ pos   |-> self.initial_position,
      angle |-> IF self.milestone = 2 THEN self.initial_angle ELSE None,
      time  |-> Num(0) ]

\* A faulty choice whose path leaves out the initial position; C1 rules it out.
LinearChoice_NoStart(self, centers, forward_time, reverse_time) ==
    IF forward_time <= reverse_time
    THEN Returned(centers, forward_time, self.dies, {"linear"})
    ELSE Returned(Reversed(centers), reverse_time, self.dies, {"linear"})

\* A faulty choice (< for <=) that gives the reverse path on a tie; C14 rules
\* it out.
LinearChoice_TiesToReverse(self, centers, forward_time, reverse_time) ==
    IF forward_time < reverse_time
    THEN Returned(<<self.initial_position>> \o centers, forward_time,
                  self.dies, {"linear"})
    ELSE Returned(<<self.initial_position>> \o Reversed(centers), reverse_time,
                  self.dies, {"linear"})

\* lines 175-183: the direction chosen
LinearChoice(self, centers, forward_time, reverse_time) ==
    IF forward_time <= reverse_time
    THEN Returned(<<self.initial_position>> \o centers, forward_time,
                  self.dies, {"linear"})
    ELSE Returned(<<self.initial_position>> \o Reversed(centers), reverse_time,
                  self.dies, {"linear"})

\* A faulty planner whose reverse walk goes on from the camera angle the
\* forward walk ended with; C16 rules it out.
LinearWalks_ReverseKeepsAngle(self, sorted_info) ==
    LinearChoice(self, [i \in 1..Len(sorted_info) |-> sorted_info[i][1]],
                 Walk(self, sorted_info, WalkStart(self)).time,
                 Walk(self, Reversed(sorted_info),
                      [WalkStart(self) EXCEPT
                          !.angle = Walk(self, sorted_info, WalkStart(self)).angle]).time)

\* lines 147-183: the two walks over sorted_info
LinearWalks(self, sorted_info) ==
    LinearChoice(self, [i \in 1..Len(sorted_info) |-> sorted_info[i][1]],
                 Walk(self, sorted_info, WalkStart(self)).time,
                 Walk(self, Reversed(sorted_info), WalkStart(self)).time)

\* WaferInspector.find_linear_traversal_path (final.py).  The first division
\* of the forward walk raises when the stage velocity is 0.
find_linear_traversal_path(self) ==
    IF self.dies = <<>>
    THEN Returned(<<self.initial_position>>, Num(0), self.dies, {"linear"})
    ELSE IF self.stage_velocity = 0 THEN Raised(self.dies, {"linear"})
    ELSE LinearWalks(self, SortedInfo(self))

----------------------------------------------------------------------------
(* find_optimal_path and run_inspection, final.py and milestone1.py *)

\* A faulty comparison (< for <=) that gives the nearest-neighbor plan on a
\* tie; C4 rules it out.
BetterPlan_TiesToNearest(lin, nn) ==
    IF nn.status # "ok" THEN Raised(nn.dies, {"linear", "nn"})
    ELSE IF lin.time < nn.time
    THEN Returned(lin.path, lin.time, nn.dies, {"linear", "nn"})
    ELSE Returned(nn.path, nn.time, nn.dies, {"linear", "nn"})

\* lines 194-198 (milestone1.py 131-135): the cheaper plan
BetterPlan(lin, nn) ==
    IF nn.status # "ok" THEN Raised(nn.dies, {"linear", "nn"})
    ELSE IF lin.time <= nn.time
    THEN Returned(lin.path, lin.time, nn.dies, {"linear", "nn"})
    ELSE Returned(nn.path, nn.time, nn.dies, {"linear", "nn"})

\* lines 189-198: after the linear planner gave lin
OptimalAfterLinear(self, lin) ==
    IF lin.status # "ok" THEN Raised(lin.dies, {"linear"})
    ELSE BetterPlan(lin, find_nearest_neighbor_path(
                             [self EXCEPT !.dies = ResetVisited(lin.dies)]))

\* A faulty find_optimal_path without the test for an empty die list; C5
\* rules it out.
find_optimal_path_NoShortCircuit(self) ==
    OptimalAfterLinear(self, find_linear_traversal_path(self))

\* WaferInspector.find_optimal_path (final.py)
find_optimal_path(self) ==
    IF self.dies = <<>>
    THEN Returned(<<self.initial_position>>, Num(0), self.dies, {})
    ELSE OptimalAfterLinear(self, find_linear_traversal_path(self))

\* lines 203-208 (milestone1.py 142-147): the result record; float(x) of a
\* number keeps its value
InspectionRecord(plan) ==
    IF plan.status # "ok" THEN plan
    ELSE [ status    |-> "ok",
           TotalTime |-> Round3(plan.time),
           Path      |-> [i \in 1..Len(plan.path) |-> <<plan.path[i][1], plan.path[i][2]>>],
           dies      |-> plan.dies,
           invoked   |-> plan.invoked ]

\* WaferInspector.run_inspection (final.py)
run_inspection(self) == InspectionRecord(find_optimal_path(self))

----------------------------------------------------------------------------
(* class WaferInspector of milestone1.py: distances are accumulated and     *)
(* divided by the stage velocity once, at the end of each planner           *)

\* lines 49-52: the locals before the while loop
M1_NNLocals(self) ==
    [ path             |-> <<self.initial_position>>,
      total_distance   |-> Num(0),
      current_position |-> self.initial_position,
      remaining_dies   |-> Len(self.dies),
      status           |-> "loop" ]

RECURSIVE M1_NNScan(_, _, _, _)
\* lines 56-64: the scan from die i on; best.idx = -1 stands for
\* min_dist = float('inf')
M1_NNScan(self, loc, i, best) ==
    IF i > Len(self.dies) THEN best
    ELSE IF self.dies[i].visited THEN M1_NNScan(self, loc, i + 1, best)
    ELSE M1_NNScan(self, loc, i + 1,
                   ScanStep(best, i, calculate_distance(loc.current_position,
                                                        self.dies[i].center)))

\* A faulty move that does not count the die off remaining_dies; C12 rules it
\* out.
M1_NNVisit_NoCount(self, loc, best) ==
    IF best.idx = 0 - 1
    THEN [self |-> self, loc |-> [loc EXCEPT !.status = "break"]]
    ELSE [ self |-> [self EXCEPT !.dies[best.idx].visited = TRUE],
           loc  |-> [loc EXCEPT
               !.current_position = self.dies[best.idx].center,
               !.path = Append(@, self.dies[best.idx].center),
               !.total_distance = @ + best.min] ]

\* lines 66-76: the move to the die found, or the break
M1_NNVisit(self, loc, best) ==
    IF best.idx = 0 - 1
    THEN [self |-> self, loc |-> [loc EXCEPT !.status = "break"]]
    ELSE [ self |-> [self EXCEPT !.dies[best.idx].visited = TRUE],
           loc  |-> [loc EXCEPT
               !.current_position = self.dies[best.idx].center,
               !.path = Append(@, self.dies[best.idx].center),
               !.total_distance = @ + best.min,
               !.remaining_dies = @ - 1] ]

\* lines 55-76: one iteration of the while loop
M1_NNIter(self, loc) ==
    M1_NNVisit(self, loc, M1_NNScan(self, loc, 1, [idx |-> 0 - 1, min |-> 0]))

RECURSIVE M1_NNLoop(_)
\* lines 54-79: the while loop, the division and the return, from the state st
M1_NNLoop(st) ==
    IF st.loc.status = "loop" /\ st.loc.remaining_dies > 0
    THEN M1_NNLoop(M1_NNIter(st.self, st.loc))
    ELSE IF st.self.stage_velocity = 0 THEN Raised(st.self.dies, {"nn"})
    ELSE Returned(st.loc.path, FDiv(st.loc.total_distance, st.self.stage_velocity),
                  st.self.dies, {"nn"})

\* WaferInspector.find_nearest_neighbor_path (milestone1.py)
M1_find_nearest_neighbor_path(self) ==
    IF self.dies = <<>>
    THEN Returned(<<self.initial_position>>, Num(0), self.dies, {"nn"})
    ELSE M1_NNLoop([self |-> [self EXCEPT !.dies = ResetVisited(@)],
                    loc  |-> M1_NNLocals(self)])

\* lines 87-100: the die centers sorted along the dominant axis (an item is
\* <<center>>, its sort key the center)
M1_SortedCenters(self) ==
    Xs(SortedAlongAxis([i \in 1..Len(self.dies) |-> <<self.dies[i].center>>],
                       [i \in 1..Len(self.dies) |-> self.dies[i].center]))

RECURSIVE M1_PathDistance(_, _)
\* lines 101-106: the distance from point `from` along the points of s
M1_PathDistance(from, s) ==
    IF s = <<>> THEN Num(0)
    ELSE calculate_distance(from, s[1]) + M1_PathDistance(s[1], Tail(s))

\* lines 107-115: the direction chosen, the division and the return
M1_LinearChoice(self, sorted_centers, forward_distance, reverse_distance) ==
    IF self.stage_velocity = 0 THEN Raised(self.dies, {"linear"})
    ELSE IF forward_distance <= reverse_distance
    THEN Returned(<<self.initial_position>> \o sorted_centers,
                  FDiv(forward_distance, self.stage_velocity), self.dies, {"linear"})
    ELSE Returned(<<self.initial_position>> \o Reversed(sorted_centers),
                  FDiv(reverse_distance, self.stage_velocity), self.dies, {"linear"})

\* lines 101-115: the two distances over sorted_centers
M1_LinearWalks(self, sorted_centers) ==
    M1_LinearChoice(self, sorted_centers,
                    M1_PathDistance(self.initial_position, sorted_centers),
                    M1_PathDistance(self.initial_position, Reversed(sorted_centers)))

\* WaferInspector.find_linear_traversal_path (milestone1.py)
M1_find_linear_traversal_path(self) ==
    IF self.dies = <<>>
    THEN Returned(<<self.initial_position>>, Num(0), self.dies, {"linear"})
    ELSE M1_LinearWalks(self, M1_SortedCenters(self))

\* lines 124-135: after the linear planner gave lin
M1_OptimalAfterLinear(self, lin) ==
    IF lin.status # "ok" THEN Raised(lin.dies, {"linear"})
    ELSE BetterPlan(lin, M1_find_nearest_neighbor_path(
                             [self EXCEPT !.dies = ResetVisited(lin.dies)]))

\* WaferInspector.find_optimal_path (milestone1.py)
M1_find_optimal_path(self) ==
    IF self.dies = <<>>
    THEN Returned(<<self.initial_position>>, Num(0), self.dies, {})
    ELSE M1_OptimalAfterLinear(self, M1_find_linear_traversal_path(self))

\* WaferInspector.run_inspection (milestone1.py)
M1_run_inspection(self) == InspectionRecord(M1_find_optimal_path(self))

----------------------------------------------------------------------------
(* The inputs of the model *)

\* a point given in whole units
Pt(x, y) == <<Num(x), Num(y)>>

\* The dies an input may hold.  Two of them are the same square with its
\* corners listed from different starting corners: same center (1, 1),
\* orientations 0 and 180.  The others: a die given by two corners, with
\* center (0, 2) and orientation 225, and a die given by one corner, (1, 0),
\* whose orientation is 0.
DieShapes ==
    { [Corners |-> <<Pt(0, 0), Pt(2, 0), Pt(2, 2), Pt(0, 2)>>],
      [Corners |-> <<Pt(2, 2), Pt(0, 2), Pt(0, 0), Pt(2, 0)>>],
      [Corners |-> <<Pt(1, 3), Pt(0 - 1, 1)>>],
      [Corners |-> <<Pt(1, 0)>>] }

\* all die lists of at most MaxDies dies
DieLists == UNION { [1..n -> DieShapes] : n \in 0..MaxDies }

InitialPositions == { Pt(1, 1), Pt(1, 2) }
StageVelocities == { Num(0), Num(3) }
InitialAngles == { Num(0), Num(200) }
CameraVelocities == { Num(0), Num(5) }

\* the module and the milestone of the inspector under study
Variants == { <<"milestone1", 1>>, <<"final", 1>>, <<"final", 2>> }

\* Input records.  The fields no cost computation reads hold the defaults of
\* WaferInspector.__init__; in basic mode so do InitialAngle and CameraVelocity.
Inputs(milestone) ==
    [ InitialPosition    : InitialPositions,
      InitialAngle       : IF milestone = 2 THEN InitialAngles ELSE {Num(0)},
      StageVelocity      : StageVelocities,
      StageAcceleration  : {Num(0)},
      CameraVelocity     : IF milestone = 2 THEN CameraVelocities ELSE {Num(5)},
      CameraAcceleration : {Num(0)},
      WaferDiameter      : {Num(300)},
      Dies               : DieLists ]

NoCall == [op |-> "none", args |-> <<>>]
NoRet == [status |-> "none"]

\* the callers that may hold an invocation in progress
Threads == {1, 2}

\* no invocation: the caller is outside the inspector's methods
Idle == [pc |-> "idle"]
NoFrames == [t \in Threads |-> Idle]

----------------------------------------------------------------------------
(* The planner calls on one inspector *)

Init ==
    /\ \E v \in Variants :
          /\ module = v[1]
          /\ input_data \in Inputs(v[2])
          /\ insp = WaferInspector(input_data, v[1], v[2])
    /\ call = NoCall
    /\ entry = <<>>
    /\ ret = NoRet
    /\ frames = NoFrames

\* what the caller sees of a planner call: the returned tuple or the exception
PlanSeen(r) ==
    IF r.status = "ok"
    THEN [status |-> "ok", path |-> r.path, time |-> r.time, invoked |-> r.invoked]
    ELSE [status |-> r.status, invoked |-> r.invoked]

\* what the caller sees of run_inspection
RecordSeen(r) ==
    IF r.status = "ok"
    THEN [status |-> "ok", TotalTime |-> r.TotalTime, Path |-> r.Path,
          invoked |-> r.invoked]
    ELSE [status |-> r.status, invoked |-> r.invoked]

\* the effect of a call of method op that produced r (r.dies: the dies as
\* the call left them)
Called(op, r, seen) ==
    /\ insp' = [insp EXCEPT !.dies = r.dies]
    /\ call' = [op |-> op, args |-> <<>>]
    /\ entry' = [i \in 1..Len(insp.dies) |-> insp.dies[i].visited]
    /\ ret' = seen
    /\ UNCHANGED <<module, input_data, frames>>

\* the planner call with its caller's view of the result
PlanCall(op, r) == Called(op, r, PlanSeen(r))
RecordCall(op, r) == Called(op, r, RecordSeen(r))

\* inspector.find_linear_traversal_path()
CallLinear ==
    PlanCall("find_linear_traversal_path",
             IF module = "milestone1" THEN M1_find_linear_traversal_path(insp)
             ELSE find_linear_traversal_path(insp))

\* inspector.find_nearest_neighbor_path()
CallNearestNeighbor ==
    PlanCall("find_nearest_neighbor_path",
             IF module = "milestone1" THEN M1_find_nearest_neighbor_path(insp)
             ELSE find_nearest_neighbor_path(insp))

\* inspector.find_optimal_path()
CallOptimal ==
    PlanCall("find_optimal_path",
             IF module = "milestone1" THEN M1_find_optimal_path(insp)
             ELSE find_optimal_path(insp))

\* inspector.run_inspection()
CallRunInspection ==
    RecordCall("run_inspection",
               IF module = "milestone1" THEN M1_run_inspection(insp)
               ELSE run_inspection(insp))

Next ==
    \/ CallLinear
    \/ CallNearestNeighbor
    \/ CallOptimal
    \/ CallRunInspection

Spec == Init /\ [][Next]_vars

----------------------------------------------------------------------------
(* The cost-model methods of final.py, called on their own *)

\* the camera angles and die orientations the methods are called with, among
\* them the two neighbours of the 90 degree boundary and angles outside
\* [0, 360)
TestAngles ==
    { Num(0 - 30), Num(0), Num(45), Milli(89999), Num(90), Milli(90001),
      Num(135), Num(180), Num(200), Num(270), Num(359), Num(400) }

AngleCameraVelocities == { Num(0 - 5), Num(0), Num(5) }

InitAngles ==
    /\ module = "final"
    /\ \E milestone \in {1, 2} :
          /\ input_data \in [ InitialPosition    : {Pt(1, 1)},
                              InitialAngle       : {Num(0)},
                              StageVelocity      : {Num(3)},
                              StageAcceleration  : {Num(0)},
                              CameraVelocity     : AngleCameraVelocities,
                              CameraAcceleration : {Num(0)},
                              WaferDiameter      : {Num(300)},
                              Dies               : {<<>>} ]
          /\ insp = WaferInspector(input_data, "final", milestone)
    /\ call = NoCall
    /\ entry = <<>>
    /\ ret = NoRet
    /\ frames = NoFrames

\* the effect of a call of the cost-model method op that returned value
Computed(op, args, value) ==
    /\ call' = [op |-> op, args |-> args]
    /\ entry' = [i \in 1..Len(insp.dies) |-> insp.dies[i].visited]
    /\ ret' = [status |-> "ok", value |-> value]
    /\ UNCHANGED <<module, input_data, insp, frames>>

\* inspector.calculate_rotation_time(camera_angle, die_orientation)
CallRotationTime ==
    \E camera_angle \in TestAngles, die_orientation \in TestAngles :
        Computed("calculate_rotation_time", <<camera_angle, die_orientation>>,
                 calculate_rotation_time(insp, camera_angle, die_orientation))

\* inspector.get_new_camera_angle(current_angle, die_orientation)
CallNewCameraAngle ==
    \E current_angle \in TestAngles, die_orientation \in TestAngles :
        Computed("get_new_camera_angle", <<current_angle, die_orientation>>,
                 get_new_camera_angle(insp, current_angle, die_orientation))

NextAngles ==
    \/ CallRotationTime
    \/ CallNewCameraAngle

SpecAngles == InitAngles /\ [][NextAngles]_vars

----------------------------------------------------------------------------
(* What the properties below speak about *)

\* a newly built inspector for the input of the state
Fresh == WaferInspector(input_data, module, insp.milestone)

\* the planners of the state's module on inspector w, as the caller sees them
LinearOf(w) ==
    PlanSeen(IF module = "milestone1" THEN M1_find_linear_traversal_path(w)
             ELSE find_linear_traversal_path(w))
NearestOf(w) ==
    PlanSeen(IF module = "milestone1" THEN M1_find_nearest_neighbor_path(w)
             ELSE find_nearest_neighbor_path(w))
InspectionOf(w) ==
    RecordSeen(IF module = "milestone1" THEN M1_run_inspection(w)
               ELSE run_inspection(w))

NumDies == Len(input_data.Dies)
Centers == [i \in 1..NumDies |-> insp.dies[i].center]

\* the last call was op and it returned (it did not raise)
ReturnedFrom(op) == call.op = op /\ ret.status = "ok"

\* the path a returned find_optimal_path or run_inspection call gave
OptimalReturned == ReturnedFrom("find_optimal_path") \/ ReturnedFrom("run_inspection")
OptimalPath == IF call.op = "run_inspection" THEN ret.Path ELSE ret.path

\* how often point p occurs in Path[1:], and how many dies have center p
TimesInPath(p) == Cardinality({j \in 2..Len(OptimalPath) : OptimalPath[j] = p})
DiesAt(p) == Cardinality({i \in 1..NumDies : Centers[i] = p})

----------------------------------------------------------------------------
(* C1 *)

\* C1: the record run_inspection returns has a Path of exactly len(Dies) + 1
\* points whose first point is InitialPosition, for every die list and in
\* both modules and both modes.
C1_PathLengthAndStart ==
    ReturnedFrom("run_inspection") =>
        /\ Len(ret.Path) = NumDies + 1
        /\ ret.Path[1] = input_data.InitialPosition

\* run_inspection returned for a full die list in extended mode
C1_Witness ==
    /\ ReturnedFrom("run_inspection")
    /\ NumDies = MaxDies
    /\ insp.milestone = 2

----------------------------------------------------------------------------
(* C2 *)

\* C2 as stated: in the path find_optimal_path / run_inspection returns,
\* every die's center appears exactly once in Path[1:].
C2_EachCenterExactlyOnce ==
    OptimalReturned => \A i \in 1..NumDies : TimesInPath(Centers[i]) = 1

\* C2, amended: Path[1:] is a rearrangement of the list of die centers: it has
\* one point per die, and every point occurs in it as often as there are dies
\* with that center (once, when no two dies share a center).
C2_PathIsRearrangement ==
    OptimalReturned =>
        /\ Len(OptimalPath) = NumDies + 1
        /\ \A j \in 2..Len(OptimalPath) :
              TimesInPath(OptimalPath[j]) = DiesAt(OptimalPath[j])
        /\ \A i \in 1..NumDies : TimesInPath(Centers[i]) = DiesAt(Centers[i])

\* find_optimal_path returned a path for three dies, two of which share their
\* center
C2_Witness ==
    /\ ReturnedFrom("find_optimal_path")
    /\ NumDies = 3
    /\ \E i, k \in 1..NumDies : i # k /\ Centers[i] = Centers[k]
    /\ \E i, k \in 1..NumDies : Centers[i] # Centers[k]

----------------------------------------------------------------------------
(* C3 *)

\* C3 as stated: TotalTime >= 0 always, and TotalTime = 0 if and only if the
\* die list is empty.
C3_ZeroIffEmpty ==
    ReturnedFrom("run_inspection") =>
        /\ ret.TotalTime >= 0
        /\ (ret.TotalTime = 0 <=> input_data.Dies = <<>>)

\* C3, amended: with StageVelocity > 0, TotalTime >= 0; and TotalTime = 0
\* whenever the die list is empty (the converse does not hold).
C3_NonNegativeZeroIfEmpty ==
    ReturnedFrom("run_inspection") =>
        /\ input_data.StageVelocity > 0 => ret.TotalTime >= 0
        /\ input_data.Dies = <<>> => ret.TotalTime = 0

\* run_inspection returned TotalTime 0 for a non-empty die list
C3_Witness ==
    /\ ReturnedFrom("run_inspection")
    /\ input_data.StageVelocity > 0
    /\ input_data.Dies # <<>>
    /\ ret.TotalTime = 0

----------------------------------------------------------------------------
(* C4 *)

\* got is the cheaper of the plans lin and nn: lin when lin.time <= nn.time,
\* nn otherwise
SelectsMinimum(got, lin, nn) ==
    /\ lin.status = "ok"
    /\ nn.status = "ok"
    /\ got.time <= lin.time
    /\ got.time <= nn.time
    /\ got.time \in {lin.time, nn.time}
    /\ lin.time <= nn.time => got.path = lin.path
    /\ nn.time < lin.time => got.path = nn.path

\* C4: find_optimal_path returns a plan whose time is min(linear_time,
\* nn_time), the times find_linear_traversal_path and
\* find_nearest_neighbor_path return on the same input; it returns the
\* linear-traversal plan when linear_time <= nn_time (ties included) and the
\* nearest-neighbor plan otherwise.
C4_SelectsMinimum ==
    ReturnedFrom("find_optimal_path") /\ input_data.Dies # <<>> =>
        SelectsMinimum(ret, LinearOf(Fresh), NearestOf(Fresh))

\* got is the linear-traversal plan lin, ahead of a nearest-neighbor plan nn
\* of the same time and another path
TieToLinear(got, lin, nn) ==
    /\ lin.status = "ok"
    /\ nn.status = "ok"
    /\ lin.time = nn.time
    /\ lin.path # nn.path
    /\ got.path = lin.path

\* find_optimal_path returned the linear-traversal path on a tie between two
\* plans with different paths
C4_Witness ==
    /\ ReturnedFrom("find_optimal_path")
    /\ TieToLinear(ret, LinearOf(Fresh), NearestOf(Fresh))

----------------------------------------------------------------------------
(* C5 *)

\* C5: with an empty die list and any configuration, StageVelocity 0
\* included, find_optimal_path returns ([initial_position], 0.0) without
\* invoking either planner, and run_inspection returns TotalTime 0.0 with
\* Path = [InitialPosition]; neither raises.
C5_EmptyShortCircuit ==
    input_data.Dies = <<>> =>
        /\ call.op = "find_optimal_path" =>
              ret = [ status |-> "ok", path |-> <<input_data.InitialPosition>>,
                      time |-> 0, invoked |-> {} ]
        /\ call.op = "run_inspection" =>
              ret = [ status |-> "ok", Path |-> <<input_data.InitialPosition>>,
                      TotalTime |-> 0, invoked |-> {} ]

\* run_inspection was called with no dies and StageVelocity 0
C5_Witness ==
    /\ call.op = "run_inspection"
    /\ input_data.Dies = <<>>
    /\ input_data.StageVelocity = 0

----------------------------------------------------------------------------
(* C6 *)

\* C6: whatever calls were made before on the same inspector, a call of
\* find_nearest_neighbor_path or run_inspection returns exactly what the
\* first such call on a newly built inspector with the same input returns.
C6_HistoryIndependent ==
    /\ call.op = "find_nearest_neighbor_path" => ret = NearestOf(Fresh)
    /\ call.op = "run_inspection" => ret = InspectionOf(Fresh)

\* find_nearest_neighbor_path returned a path for several dies whose visited
\* flags were all set when it was called
C6_Witness ==
    /\ ReturnedFrom("find_nearest_neighbor_path")
    /\ NumDies >= 2
    /\ \A i \in 1..NumDies : entry[i]

----------------------------------------------------------------------------
(* C7 *)

\* C7: with StageVelocity = 0 and a non-empty die list, run_inspection never
\* returns a result: it ends in a division error, in both modules and modes.
C7_ZeroVelocityRaises ==
    /\ call.op = "run_inspection"
    /\ input_data.StageVelocity = 0
    /\ input_data.Dies # <<>>
    => ret.status = "ZeroDivisionError"

\* run_inspection of milestone1.py was called with StageVelocity 0 and dies
C7_Witness ==
    /\ call.op = "run_inspection"
    /\ module = "milestone1"
    /\ input_data.StageVelocity = 0
    /\ input_data.Dies # <<>>

----------------------------------------------------------------------------
(* C8 and C9: the cost-model methods, under SpecAngles *)

\* the angular difference d of two angles as the claims define it:
\* min(|a - b| mod 360, 360 - (|a - b| mod 360))
FoldedDifference(a, b) ==
    IF Abs(a - b) % Num(360) <= Num(360) - (Abs(a - b) % Num(360))
    THEN Abs(a - b) % Num(360)
    ELSE Num(360) - (Abs(a - b) % Num(360))

\* the arguments of the last call
Arg1 == call.args[1]
Arg2 == call.args[2]

\* the last call was calculate_rotation_time, on an extended-mode inspector
RotationTimeCalled == call.op = "calculate_rotation_time" /\ insp.milestone = 2

\* C8 as stated: in extended mode calculate_rotation_time returns 0 when
\* d < 90, (d - 90) / rotation_velocity otherwise, and 0 when
\* rotation_velocity is 0; at d = 90 it returns 0; it is never negative.
C8_RotationTimeAsStated ==
    RotationTimeCalled =>
        /\ ret.status = "ok"
        /\ ret.value =
              IF FoldedDifference(Arg1, Arg2) < Num(90) THEN 0
              ELSE IF input_data.CameraVelocity = 0 THEN 0
              ELSE FDiv(FoldedDifference(Arg1, Arg2) - Num(90),
                        input_data.CameraVelocity)
        /\ FoldedDifference(Arg1, Arg2) = Num(90) => ret.value = 0
        /\ ret.value >= 0

\* C8, amended: in extended mode calculate_rotation_time returns 0 when
\* d < 90; otherwise (d - 90) / rotation_velocity when rotation_velocity > 0
\* and 0, without error, when rotation_velocity <= 0; at d = 90 it returns 0;
\* it is never negative.
C8_RotationTime ==
    RotationTimeCalled =>
        /\ ret.status = "ok"
        /\ ret.value =
              IF FoldedDifference(Arg1, Arg2) < Num(90) THEN 0
              ELSE IF input_data.CameraVelocity <= 0 THEN 0
              ELSE FDiv(FoldedDifference(Arg1, Arg2) - Num(90),
                        input_data.CameraVelocity)
        /\ FoldedDifference(Arg1, Arg2) = Num(90) => ret.value = 0
        /\ ret.value >= 0

\* calculate_rotation_time returned a positive time: d > 90 and a positive
\* rotation velocity
C8_Witness ==
    /\ RotationTimeCalled
    /\ FoldedDifference(Arg1, Arg2) > Num(90)
    /\ input_data.CameraVelocity > 0
    /\ ret.value > 0

\* the last call was get_new_camera_angle, on an extended-mode inspector
NewAngleCalled == call.op = "get_new_camera_angle" /\ insp.milestone = 2

\* C9: in extended mode get_new_camera_angle returns current_angle unchanged
\* when d < 90; otherwise an angle in [0, 360) at folded difference exactly
\* 90 from die_orientation, namely current_angle rotated by d - 90 in the
\* positive direction when (die_orientation - current_angle) mod 360 <= 180
\* and in the negative direction otherwise.
C9_NewCameraAngle ==
    NewAngleCalled =>
        IF FoldedDifference(Arg1, Arg2) < Num(90)
        THEN ret.value = Arg1
        ELSE /\ ret.value >= 0
             /\ ret.value < Num(360)
             /\ FoldedDifference(ret.value, Arg2) = Num(90)
             /\ ret.value =
                   IF (Arg2 - Arg1) % Num(360) <= Num(180)
                   THEN (Arg1 + (FoldedDifference(Arg1, Arg2) - Num(90))) % Num(360)
                   ELSE (Arg1 - (FoldedDifference(Arg1, Arg2) - Num(90))) % Num(360)

\* get_new_camera_angle rotated the camera in the negative direction
C9_Witness ==
    /\ NewAngleCalled
    /\ FoldedDifference(Arg1, Arg2) > Num(90)
    /\ (Arg2 - Arg1) % Num(360) > Num(180)
    /\ ret.value # Arg1

----------------------------------------------------------------------------
(* C10 *)

\* run_inspection on a newly built inspector of the state's module and
\* milestone for the input record data
InspectionOn(data) == InspectionOf(WaferInspector(data, module, insp.milestone))

\* other values of the three fields no cost computation reads
IgnoredFields ==
    { [StageAcceleration |-> Num(2), CameraAcceleration |-> Num(0), WaferDiameter |-> Num(300)],
      [StageAcceleration |-> Num(0), CameraAcceleration |-> Num(7), WaferDiameter |-> Num(300)],
      [StageAcceleration |-> Num(0), CameraAcceleration |-> Num(0), WaferDiameter |-> Num(200)],
      [StageAcceleration |-> Num(2), CameraAcceleration |-> Num(7), WaferDiameter |-> Num(200)] }

\* the corners of a die listed from its second corner on, and in reverse
Reorderings(corners) ==
    { [k \in 1..Len(corners) |-> corners[(k % Len(corners)) + 1]],
      Reversed(corners) }

\* C10: two run_inspection runs that differ only in StageAcceleration,
\* CameraAcceleration or WaferDiameter return identical results in both
\* modes; in basic mode so do two runs that differ only in InitialAngle, in
\* CameraVelocity or in the order of a die's corners.
C10_IgnoredInputs ==
    call.op = "run_inspection" =>
        /\ \A f \in IgnoredFields :
              InspectionOn([input_data EXCEPT
                  !.StageAcceleration = f.StageAcceleration,
                  !.CameraAcceleration = f.CameraAcceleration,
                  !.WaferDiameter = f.WaferDiameter]) = ret
        /\ insp.milestone = 1 =>
              /\ \A a \in InitialAngles, c \in CameraVelocities :
                    InspectionOn([input_data EXCEPT
                        !.InitialAngle = a, !.CameraVelocity = c]) = ret
              /\ \A i \in 1..NumDies :
                    \A corners \in Reorderings(input_data.Dies[i].Corners) :
                        InspectionOn([input_data EXCEPT
                            !.Dies[i].Corners = corners]) = ret

\* run_inspection returned in basic mode of final.py for several dies, one of
\* them a die whose orientation changes with the order of its corners
C10_Witness ==
    /\ ReturnedFrom("run_inspection")
    /\ module = "final"
    /\ insp.milestone = 1
    /\ NumDies >= 2
    /\ \E i \in 1..NumDies :
          \E corners \in Reorderings(input_data.Dies[i].Corners) :
              calculate_orientation(corners)
                  # calculate_orientation(input_data.Dies[i].Corners)

----------------------------------------------------------------------------
(* find_nearest_neighbor_path statement by statement.  A caller's invocation *)
(* is a frame: its position pc, its locals loc, the result of its last scan  *)
(* best, and what it returned.  The dies, with their visited flags, belong   *)
(* to the inspector and are shared by all its callers.  The die indices      *)
(* visited, the number of loop iterations made and whether another caller's  *)
(* invocation ran at the same time are recorded for the properties.          *)

\* the frame has begun and not ended
Active(f) == f.pc \in {"enter", "scan", "visit", "return"}

\* another caller's invocation is in progress
OthersActive(t) == \E u \in Threads \ {t} : Active(frames[u])

\* the frames once caller t has begun the invocation f: those in progress now
\* run at the same time as it
Begun(t, f) ==
    [u \in Threads |->
        IF u = t THEN f
        ELSE IF Active(frames[u]) THEN [frames[u] EXCEPT !.overlapped = TRUE]
        ELSE frames[u]]

\* the frame of a call of method op; lin is what the linear planner gave
\* find_optimal_path
NewFrame(op, lin, overlapped) ==
    [ pc |-> "enter", op |-> op, lin |-> lin, loc |-> [status |-> "none"],
      best |-> [idx |-> 0 - 1, min |-> 0], visits |-> <<>>, iterations |-> 0,
      overlapped |-> overlapped, result |-> NoRet ]

\* the frame f ended with the plan or exception r
Ended(f, r) ==
    [f EXCEPT !.pc = IF r.status = "ok" THEN "returned" ELSE "raised",
              !.result = PlanSeen(r)]

\* caller t calls find_nearest_neighbor_path
BeginNearestNeighbor(t) ==
    /\ ~Active(frames[t])
    /\ frames' = Begun(t, NewFrame("find_nearest_neighbor_path", NoRet, OthersActive(t)))
    /\ UNCHANGED <<module, input_data, insp, call, entry, ret>>

\* find_optimal_path up to its call of find_nearest_neighbor_path (final.py
\* lines 186-191, milestone1.py 122-128), the linear planner having given lin
BeginOptimalWith(t, lin) ==
    IF insp.dies = <<>>
    THEN /\ frames' = Begun(t, Ended(NewFrame("find_optimal_path", NoRet, OthersActive(t)),
                                     Returned(<<insp.initial_position>>, Num(0), insp.dies, {})))
         /\ insp' = insp
    ELSE IF lin.status # "ok"
    THEN /\ frames' = Begun(t, Ended(NewFrame("find_optimal_path", NoRet, OthersActive(t)),
                                     Raised(insp.dies, {"linear"})))
         /\ insp' = insp
    ELSE /\ frames' = Begun(t, NewFrame("find_optimal_path", lin, OthersActive(t)))
         /\ insp' = [insp EXCEPT !.dies = ResetVisited(@)]

\* caller t calls find_optimal_path
BeginOptimal(t) ==
    /\ ~Active(frames[t])
    /\ BeginOptimalWith(t, IF module = "milestone1"
                           THEN M1_find_linear_traversal_path(insp)
                           ELSE find_linear_traversal_path(insp))
    /\ UNCHANGED <<module, input_data, call, entry, ret>>

\* A faulty entry that leaves the visited flags as the last invocation left
\* them; C15 rules it out.
Enter_NoReset(t) ==
    /\ frames[t].pc = "enter"
    /\ frames' = [frames EXCEPT
                     ![t].pc = IF insp.dies = <<>> THEN "return" ELSE "scan",
                     ![t].loc = IF insp.dies = <<>>
                                THEN [NNLocals(insp) EXCEPT !.status = "empty"]
                                ELSE IF module = "milestone1"
                                THEN M1_NNLocals(insp) ELSE NNLocals(insp)]
    /\ UNCHANGED <<module, input_data, insp, call, entry, ret>>

\* final.py lines 81-90, milestone1.py 42-52: the empty case, the reset of the
\* visited flags and the locals
Enter(t) ==
    /\ frames[t].pc = "enter"
    /\ IF insp.dies = <<>>
       THEN /\ frames' = [frames EXCEPT ![t].pc = "return",
                              ![t].loc = [NNLocals(insp) EXCEPT !.status = "empty"]]
            /\ insp' = insp
       ELSE /\ frames' = [frames EXCEPT ![t].pc = "scan",
                              ![t].loc = IF module = "milestone1"
                                         THEN M1_NNLocals(insp) ELSE NNLocals(insp)]
            /\ insp' = [insp EXCEPT !.dies = ResetVisited(@)]
    /\ UNCHANGED <<module, input_data, call, entry, ret>>

\* final.py lines 93-108, milestone1.py 56-64: the scan for the nearest
\* unvisited die; in final.py its first division raises when the stage
\* velocity is 0
Scan(t) ==
    /\ frames[t].pc = "scan"
    /\ frames' = [frames EXCEPT ![t] =
          IF module = "milestone1"
          THEN [frames[t] EXCEPT
                   !.pc = "visit",
                   !.best = M1_NNScan(insp, frames[t].loc, 1, [idx |-> 0 - 1, min |-> 0])]
          ELSE IF NNIter(insp, frames[t].loc).loc.status = "ZeroDivisionError"
          THEN Ended(frames[t], Raised(insp.dies, {"nn"}))
          ELSE [frames[t] EXCEPT
                   !.pc = "visit",
                   !.best = NNScan(insp, frames[t].loc, 1, [idx |-> 0 - 1, min |-> 0])]]
    /\ UNCHANGED <<module, input_data, insp, call, entry, ret>>

\* the frame f after the rest of the iteration gave the locals loc
Visited(f, loc) ==
    [f EXCEPT !.loc = loc,
              !.pc = IF loc.status = "loop" /\ loc.remaining_dies > 0
                     THEN "scan" ELSE "return",
              !.visits = IF f.best.idx = 0 - 1 THEN @ ELSE Append(@, f.best.idx),
              !.iterations = @ + 1]

\* the inspector and the frame of caller t after the rest of the iteration
\* gave r
VisitWith(t, r) ==
    /\ insp' = r.self
    /\ frames' = [frames EXCEPT ![t] = Visited(frames[t], r.loc)]

\* final.py lines 109-127, milestone1.py 66-76: the break, or the move to the
\* die found and its visited flag; then the loop condition
Visit(t) ==
    /\ frames[t].pc = "visit"
    /\ VisitWith(t, IF module = "milestone1"
                    THEN M1_NNVisit(insp, frames[t].loc, frames[t].best)
                    ELSE NNVisit(insp, frames[t].loc, frames[t].best.idx))
    /\ UNCHANGED <<module, input_data, call, entry, ret>>

\* what find_nearest_neighbor_path returns to its caller with the locals loc
\* (final.py lines 82 and 128, milestone1.py 43 and 78-79)
NearestReturn(loc) ==
    IF loc.status = "empty"
    THEN Returned(<<insp.initial_position>>, Num(0), insp.dies, {"nn"})
    ELSE IF module = "milestone1" THEN M1_NNLoop([self |-> insp, loc |-> loc])
    ELSE NNLoop([self |-> insp, loc |-> loc])

\* the return of find_nearest_neighbor_path and, in find_optimal_path, the
\* choice of the plan (final.py lines 194-198, milestone1.py 131-135)
Return(t) ==
    /\ frames[t].pc = "return"
    /\ frames' = [frames EXCEPT ![t] =
          Ended(frames[t],
                IF frames[t].op = "find_optimal_path"
                THEN BetterPlan(frames[t].lin, NearestReturn(frames[t].loc))
                ELSE NearestReturn(frames[t].loc))]
    /\ UNCHANGED <<module, input_data, insp, call, entry, ret>>

\* one caller, one invocation of find_nearest_neighbor_path at a time
NextNearestNeighbor ==
    \/ BeginNearestNeighbor(1)
    \/ Enter(1)
    \/ Scan(1)
    \/ Visit(1)
    \/ Return(1)

SpecNearestNeighbor == Init /\ [][NextNearestNeighbor]_vars

----------------------------------------------------------------------------
(* C11 *)

\* the invocation of the single caller of SpecNearestNeighbor
TheFrame == frames[1]

\* the dies not yet visited
Unvisited == {i \in 1..NumDies : ~insp.dies[i].visited}

\* the movement time to die i from the frame's current position
MovementTime(i) ==
    FDiv(calculate_distance(TheFrame.loc.current_position, insp.dies[i].center),
         insp.stage_velocity)

\* the cost-to-reach of die i from the frame's current position and angle: in
\* final.py the movement time, plus the rotation time in extended mode; in
\* milestone1.py, which compares distances and divides by the stage velocity
\* after the loop, the distance
CostToReach(i) ==
    IF module = "milestone1"
    THEN calculate_distance(TheFrame.loc.current_position, insp.dies[i].center)
    ELSE IF insp.milestone = 2
    THEN MovementTime(i) + calculate_rotation_time(insp, TheFrame.loc.current_angle,
                                                   insp.dies[i].orientation)
    ELSE MovementTime(i)

\* die n is the first of the unvisited dies of minimal cost
FirstOfMinimalCost(n) ==
    /\ n \in Unvisited
    /\ \A j \in Unvisited : CostToReach(n) <= CostToReach(j)
    /\ \A j \in Unvisited : j < n => CostToReach(n) < CostToReach(j)

\* C11: at every iteration of find_nearest_neighbor_path the die visited next
\* is an unvisited die whose cost-to-reach from the current position (and
\* angle, in extended mode) is minimal among the unvisited dies, and the one
\* of lowest index among those of equal minimal cost; in milestone1.py, for a
\* positive stage velocity, no unvisited die has a smaller movement time.
C11_VisitsFirstNearest ==
    TheFrame.pc = "visit" =>
        /\ FirstOfMinimalCost(TheFrame.best.idx)
        /\ module = "milestone1" /\ insp.stage_velocity > 0 =>
              \A j \in Unvisited : MovementTime(TheFrame.best.idx) <= MovementTime(j)

\* in extended mode the scan chose the first of two unvisited dies of equal
\* minimal cost, after a die was visited
C11_Witness ==
    /\ TheFrame.pc = "visit"
    /\ insp.milestone = 2
    /\ TheFrame.iterations >= 1
    /\ \E j \in Unvisited :
          j > TheFrame.best.idx /\ CostToReach(j) = CostToReach(TheFrame.best.idx)

----------------------------------------------------------------------------
(* C12 *)

\* the call of the frame has ended: it returned or it raised
HasEnded(f) == f.pc \in {"returned", "raised"}

\* the frame is inside the while loop, or has just left it
InLoop(f) == f.pc \in {"scan", "visit"}
LeftLoop(f) == f.pc = "return" /\ f.loc.status # "empty"

\* no die index occurs twice in visits
NoRepeat(visits) ==
    \A a, b \in 1..Len(visits) : a # b => visits[a] # visits[b]

\* In every loop state remaining_dies is the number of unvisited dies and the
\* dies visited so far are distinct; the die the scan found is an unvisited
\* one, never "none" (the break is not taken); the loop is left with every
\* die visited.
LoopInvariant ==
    /\ InLoop(TheFrame) \/ LeftLoop(TheFrame) =>
          /\ TheFrame.loc.remaining_dies = Cardinality(Unvisited)
          /\ TheFrame.loc.status # "break"
          /\ NoRepeat(TheFrame.visits)
          /\ Len(TheFrame.visits) = TheFrame.iterations
          /\ \A a \in 1..Len(TheFrame.visits) : insp.dies[TheFrame.visits[a]].visited
    /\ TheFrame.pc = "visit" => TheFrame.best.idx \in Unvisited
    /\ LeftLoop(TheFrame) => Unvisited = {} /\ TheFrame.iterations = NumDies

\* C12 as stated, its safety part: find_nearest_neighbor_path ends after
\* exactly len(dies) iterations of its while loop, with the loop invariant
\* above.
C12_EndsAfterLenDiesIterations ==
    /\ LoopInvariant
    /\ HasEnded(TheFrame) => TheFrame.iterations = NumDies

\* a call that returns made exactly len(dies) iterations, and so did a call
\* of milestone1.py that raises; a call of final.py raises only for
\* StageVelocity 0, in the scan of its first iteration
EndsAsItShould ==
    /\ TheFrame.pc = "returned" => TheFrame.iterations = NumDies
    /\ TheFrame.pc = "raised" =>
          /\ insp.stage_velocity = 0
          /\ NumDies > 0
          /\ TheFrame.iterations = IF module = "milestone1" THEN NumDies ELSE 0

\* A bound on the steps the call of frame f has left: one for the return,
\* two for each die not yet counted off remaining_dies, one less once the scan
\* of the current iteration is done.
Variant(f) ==
    IF f.pc = "enter" THEN 2 * NumDies + 3
    ELSE IF f.pc = "scan" THEN 2 * f.loc.remaining_dies + 2
    ELSE IF f.pc = "visit" THEN 2 * f.loc.remaining_dies + 1
    ELSE IF f.pc = "return" THEN 1
    ELSE 0

\* every step of a call in progress lowers the bound on the steps it has left
\* (and in each of its positions the call has a step to take: Enter, Scan,
\* Visit or Return)
StepsLowerVariant ==
    Active(TheFrame) => Variant(TheFrame') < Variant(TheFrame) /\ Variant(TheFrame') >= 0

\* C12, amended: find_nearest_neighbor_path always terminates (every step of
\* a call lowers a natural number); with the loop invariant above, a call
\* that returns has made exactly len(dies) iterations; with StageVelocity 0
\* and dies, milestone1.py raises after len(dies) iterations and final.py
\* raises in the scan of the first.
C12_Terminates ==
    /\ [](LoopInvariant /\ EndsAsItShould)
    /\ [][StepsLowerVariant]_vars

\* find_nearest_neighbor_path returned after len(dies) iterations for a full
\* die list
C12_Witness ==
    /\ TheFrame.pc = "returned"
    /\ NumDies = MaxDies
    /\ TheFrame.iterations = NumDies

----------------------------------------------------------------------------
(* One planner call on a newly built inspector *)

\* the first call on the inspector
FirstCall ==
    \/ call = NoCall /\ CallLinear
    \/ call = NoCall /\ CallNearestNeighbor
    \/ call = NoCall /\ CallOptimal
    \/ call = NoCall /\ CallRunInspection

SpecFirstCall == Init /\ [][FirstCall]_vars

----------------------------------------------------------------------------
(* C13 *)

\* the largest and the smallest number of a non-empty set
SetMax(S) == CHOOSE m \in S : \A y \in S : y <= m
SetMin(S) == CHOOSE m \in S : \A y \in S : m <= y

\* max - min of the x and of the y coordinates of all die centers
XRange == SetMax({Centers[i][1] : i \in 1..NumDies}) - SetMin({Centers[i][1] : i \in 1..NumDies})
YRange == SetMax({Centers[i][2] : i \in 1..NumDies}) - SetMin({Centers[i][2] : i \in 1..NumDies})

\* the dominant-axis coordinate of point c and its other coordinate
Major(c) == IF XRange >= YRange THEN c[1] ELSE c[2]
Minor(c) == IF XRange >= YRange THEN c[2] ELSE c[1]

\* point c comes no later than point d in the order (x, y), or (y, x)
NoLater(c, d) == Major(c) < Major(d) \/ (Major(c) = Major(d) /\ Minor(c) <= Minor(d))

\* the points of s are in ascending order
Ascending(s) == \A a, b \in 1..Len(s) : a < b => NoLater(s[a], s[b])

\* the points of s are monotone in the dominant-axis coordinate
Monotone(s) ==
    \/ \A a, b \in 1..Len(s) : a < b => Major(s[a]) <= Major(s[b])
    \/ \A a, b \in 1..Len(s) : a < b => Major(s[a]) >= Major(s[b])

\* rest is the list of die centers in ascending order or in the reverse of it
SortedOrReversed(rest) ==
    /\ Len(rest) = NumDies
    /\ \A i \in 1..NumDies :
          Cardinality({j \in 1..Len(rest) : rest[j] = Centers[i]}) = DiesAt(Centers[i])
    /\ Ascending(rest) \/ Ascending(Reversed(rest))
    /\ Monotone(rest)

\* C13: Path[1:] of the plan find_linear_traversal_path returns is the die
\* centers ordered by (x, y) ascending when x-range >= y-range and by (y, x)
\* ascending otherwise, or the exact reverse of that sequence; it is monotone
\* in the dominant-axis coordinate, equal ranges giving the x axis.
C13_SortedAlongDominantAxis ==
    ReturnedFrom("find_linear_traversal_path") /\ NumDies > 0 =>
        /\ ret.path[1] = input_data.InitialPosition
        /\ SortedOrReversed(Tail(ret.path))

\* find_linear_traversal_path returned for dies of equal, positive x-range
\* and y-range
C13_Witness ==
    /\ ReturnedFrom("find_linear_traversal_path")
    /\ NumDies >= 2
    /\ XRange = YRange
    /\ XRange > 0

----------------------------------------------------------------------------
(* C14 *)

\* the sort key of point c: (x, y), or (y, x)
KeyOf(c, byX) == IF byX THEN c ELSE <<c[2], c[1]>>

\* die i comes before die j in the sorted sequence: by the key of its center,
\* dies of equal key staying in input order
SortsBefore(i, j, byX) ==
    \/ KeyOf(Centers[i], byX)[1] < KeyOf(Centers[j], byX)[1]
    \/ /\ KeyOf(Centers[i], byX)[1] = KeyOf(Centers[j], byX)[1]
       /\ KeyOf(Centers[i], byX)[2] < KeyOf(Centers[j], byX)[2]
    \/ Centers[i] = Centers[j] /\ i < j

\* the place of die i in the sorted sequence
PlaceOf(i, byX) == 1 + Cardinality({j \in 1..NumDies : SortsBefore(j, i, byX)})

\* the dies in the order of the sorted sequence, along x or along y
SortedOrderAlong(byX) ==
    [k \in 1..NumDies |-> CHOOSE i \in 1..NumDies : PlaceOf(i, byX) = k]

\* the dies in the order of the sorted sequence
SortedOrder == SortedOrderAlong(XRange >= YRange)

\* the centers of the dies in the given order
CentersOf(order) == [k \in 1..Len(order) |-> Centers[order[k]]]

\* the camera turns for die i in extended mode
Turns(i) == module = "final" /\ insp.milestone = 2 /\ insp.dies[i].orientation # None

\* the cost of the leg to die i from point `from` with the camera at `angle`:
\* in final.py movement time, plus rotation time in extended mode; in
\* milestone1.py, which divides by the stage velocity once, the distance
LegCost(from, angle, i) ==
    IF module = "milestone1" THEN calculate_distance(from, Centers[i])
    ELSE FDiv(calculate_distance(from, Centers[i]), insp.stage_velocity)
         + (IF Turns(i)
            THEN calculate_rotation_time(insp, angle, insp.dies[i].orientation)
            ELSE 0)

\* the camera angle after die i
AngleAfter(angle, i) ==
    IF Turns(i) THEN get_new_camera_angle(insp, angle, insp.dies[i].orientation)
    ELSE angle

RECURSIVE CostFrom(_, _, _)
\* the cost of visiting the dies of `order` one after the other from point
\* `from` with the camera at `angle`
CostFrom(order, from, angle) ==
    IF order = <<>> THEN 0
    ELSE LegCost(from, angle, Head(order))
         + CostFrom(Tail(order), Centers[Head(order)], AngleAfter(angle, Head(order)))

\* the cost of the walk over `order` that starts at the initial position with
\* the initial camera angle
WalkCost(order) == CostFrom(order, input_data.InitialPosition, input_data.InitialAngle)

\* the time a walk of the given cost takes
TimeOfCost(cost) ==
    IF module = "milestone1" THEN FDiv(cost, insp.stage_velocity) ELSE cost

\* the plan returned is the cheaper of the walks over forward and over
\* reverse, of costs fcost and rcost, forward on a tie
CheaperDirection(forward, reverse, fcost, rcost) ==
    /\ ret.time = TimeOfCost(IF fcost <= rcost THEN fcost ELSE rcost)
    /\ ret.time <= TimeOfCost(fcost)
    /\ ret.time <= TimeOfCost(rcost)
    /\ ret.path = <<input_data.InitialPosition>>
                    \o CentersOf(IF fcost <= rcost THEN forward ELSE reverse)

\* the plan returned is the cheaper of the walks over the sorted sequence
\* `order` and over its reverse
CheaperDirectionOf(order) ==
    CheaperDirection(order, Reversed(order), WalkCost(order), WalkCost(Reversed(order)))

TieOver(order) ==
    /\ WalkCost(order) = WalkCost(Reversed(order))
    /\ CentersOf(order) # CentersOf(Reversed(order))
    /\ Tail(ret.path) = CentersOf(order)

----------------------------------------------------------------------------
(* C16 *)

\* a planner returned a plan for a non-empty die list
PlannerReturned ==
    /\ call.op \in {"find_linear_traversal_path", "find_nearest_neighbor_path",
                    "find_optimal_path"}
    /\ ret.status = "ok"
    /\ NumDies > 0

\* the orders of the dies that the returned path can stand for (dies of equal
\* center are not told apart by the path)
OrdersOfPath ==
    { p \in [1..NumDies -> 1..NumDies] :
        /\ \A a, b \in 1..NumDies : a # b => p[a] # p[b]
        /\ CentersOf(p) = Tail(ret.path) }

\* the time of the leg to die i from point `from` with the camera at `angle`:
\* movement time, plus rotation time in extended mode
LegTime(from, angle, i) ==
    FDiv(calculate_distance(from, Centers[i]), insp.stage_velocity)
    + (IF Turns(i)
       THEN calculate_rotation_time(insp, angle, insp.dies[i].orientation)
       ELSE 0)

RECURSIVE TimeFrom(_, _, _)
\* the sum of the leg times over the dies of `order` from point `from` with
\* the camera at `angle`, the angle following get_new_camera_angle
TimeFrom(order, from, angle) ==
    IF order = <<>> THEN 0
    ELSE LegTime(from, angle, Head(order))
         + TimeFrom(Tail(order), Centers[Head(order)], AngleAfter(angle, Head(order)))

ReverseFromStart(order) ==
    Tail(ret.path) # CentersOf(order) =>
        ret.time = TimeOfCost(WalkCost(Reversed(order)))

ReverseAngleMatters(order) ==
    /\ Tail(ret.path) # CentersOf(order)
    /\ CostFrom(Reversed(order), input_data.InitialPosition, Num(90)) # ret.time

----------------------------------------------------------------------------
(* C17 *)

\* the WaferInspector of milestone1.py for the input of the state
Milestone1Inspector == WaferInspector(input_data, "milestone1", 1)

\* what the call of the state gives on inspector w of milestone1.py
Milestone1Result(w) ==
    IF call.op = "find_linear_traversal_path"
    THEN PlanSeen(M1_find_linear_traversal_path(w))
    ELSE IF call.op = "find_nearest_neighbor_path"
    THEN PlanSeen(M1_find_nearest_neighbor_path(w))
    ELSE IF call.op = "find_optimal_path"
    THEN PlanSeen(M1_find_optimal_path(w))
    ELSE RecordSeen(M1_run_inspection(w))

\* C17: for a positive StageVelocity the WaferInspector of final.py with
\* milestone = 1 gives what the WaferInspector of milestone1.py gives on the
\* same input: the same dies in the same order from the nearest-neighbor
\* planner, the same direction from the linear planner, the same planner
\* chosen, the same Path and the same total time.
C17_SameAsMilestone1 ==
    /\ module = "final"
    /\ insp.milestone = 1
    /\ input_data.StageVelocity > 0
    /\ call # NoCall
    => ret = Milestone1Result(Milestone1Inspector)

----------------------------------------------------------------------------
(* Two callers of one inspector.  Their invocations of                       *)
(* find_nearest_neighbor_path and find_optimal_path run one after the other  *)
(* or at the same time, their steps interleaved in any order; the visited    *)
(* flags of the dies are the inspector's and shared.                         *)

\* the dies of these inputs: the square and the die of one corner
SharedDieShapes ==
    { [Corners |-> <<Pt(0, 0), Pt(2, 0), Pt(2, 2), Pt(0, 2)>>],
      [Corners |-> <<Pt(1, 0)>>] }

\* the most dies of an inspector with two callers
MaxSharedDies == 2

\* the inputs of the inspector the callers share
SharedInputs(milestone) ==
    { data \in Inputs(milestone) :
        /\ data.InitialPosition = Pt(1, 2)
        /\ data.InitialAngle = Num(0)
        /\ data.CameraVelocity = Num(5)
        /\ Len(data.Dies) <= MaxSharedDies
        /\ \A i \in 1..Len(data.Dies) : data.Dies[i] \in SharedDieShapes }

InitConcurrent ==
    /\ \E v \in Variants :
          /\ module = v[1]
          /\ input_data \in SharedInputs(v[2])
          /\ insp = WaferInspector(input_data, v[1], v[2])
    /\ call = NoCall
    /\ entry = <<>>
    /\ ret = NoRet
    /\ frames = NoFrames

\* caller 1 makes one invocation; caller 2 makes any number, one after the
\* other, once caller 1 has begun
MayCall(t) == IF t = 1 THEN frames[1].pc = "idle" ELSE frames[1].pc # "idle"

\* caller t, who may call, calls a planner
StartNearestNeighbor(t) == MayCall(t) /\ BeginNearestNeighbor(t)
StartOptimal(t) == MayCall(t) /\ BeginOptimal(t)

\* a step of one of the callers
NextConcurrent ==
    \E t \in Threads :
        \/ StartNearestNeighbor(t)
        \/ StartOptimal(t)
        \/ Enter(t)
        \/ Scan(t)
        \/ Visit(t)
        \/ Return(t)

SpecConcurrent == InitConcurrent /\ [][NextConcurrent]_vars

----------------------------------------------------------------------------
(* C15 *)

\* how often die i is visited by the path of frame f
VisitsOf(f, i) == Cardinality({k \in 1..Len(f.visits) : f.visits[k] = i})

\* the returned path of frame f has every die exactly once
EveryDieOnce(f) ==
    /\ Len(f.result.path) = NumDies + 1
    /\ \A i \in 1..NumDies :
          Cardinality({k \in 2..Len(f.result.path) : f.result.path[k] = Centers[i]})
              = DiesAt(Centers[i])

\* frame f returned a plan for a non-empty die list
FrameReturned(f) == f.pc = "returned" /\ NumDies > 0

\* C15: an invocation of find_nearest_neighbor_path or find_optimal_path that
\* no other invocation on the same inspector overlaps (the calls are
\* serialized) returns a path that visits every die exactly once; invocations
\* whose steps interleave can return a path that omits or repeats a die
\* (C15_Witness is such a state).
C15_SerializedCallsVisitEveryDieOnce ==
    \A t \in Threads :
        FrameReturned(frames[t]) /\ ~frames[t].overlapped =>
            /\ \A i \in 1..NumDies : VisitsOf(frames[t], i) = 1
            /\ EveryDieOnce(frames[t])
            /\ frames[t].op = "find_nearest_neighbor_path" =>
                  Tail(frames[t].result.path) = CentersOf(frames[t].visits)

\* the nearest-neighbor walk of frame f omitted a die or repeated one, and
\* its path was returned
OmitsOrRepeats(f) ==
    /\ FrameReturned(f)
    /\ \E i \in 1..NumDies : VisitsOf(f, i) # 1
    /\ Tail(f.result.path) = CentersOf(f.visits)
    /\ ~EveryDieOnce(f)

\* an invocation overlapped by another returned a path that omits or repeats
\* a die, and an invocation that began after both had ended returned a path
\* with every die once
C15_Witness ==
    /\ OmitsOrRepeats(frames[1])
    /\ frames[1].overlapped
    /\ FrameReturned(frames[2])
    /\ ~frames[2].overlapped
    /\ EveryDieOnce(frames[2])

=============================================================================
